---- MODULE Spec2Model ----
(***************************************************************************)
(* Model of src/script.py: PowerPointGenerator, the conversion of a        *)
(* content tree (markdown rendered to HTML, parsed by BeautifulSoup) into  *)
(* a slide document with speaker notes.                                    *)
(*                                                                         *)
(* Texts are sequences of word tokens.  Three tokens are special: the      *)
(* notes marker, the "Slide N:" prefix and a whitespace token.             *)
(***************************************************************************)
EXTENDS Integers, Sequences, FiniteSets, TLC

\* ---------------------------------------------------------------- bounds
MaxBlocks == 3

\* ---------------------------------------------------------------- tokens
MARKER == "speaker notes:"
PFX    == "Slide 1:"
PFXL   == "slide 12 :"
WS     == " "
SUBPFX == "subtitle:"

HeadingNames == {"h1", "h2", "h3", "h4", "h5", "h6"}
TitleNames   == {"h1", "h2", "p"}
BodyNames    == HeadingNames \cup {"p", "ul", "ol", "table", "pre", "code",
                                   "blockquote", "img", "span", "div"}

\* ---------------------------------------------------------------- text helpers
RECURSIVE Concat(_)
Concat(ss) == IF ss = <<>> THEN <<>> ELSE Head(ss) \o Concat(Tail(ss))

\* str.strip(): drops leading and trailing whitespace
RECURSIVE LStrip(_)
LStrip(t) == IF t # <<>> /\ Head(t) = WS THEN LStrip(Tail(t)) ELSE t
RECURSIVE RStrip(_)
RStrip(t) == IF t # <<>> /\ t[Len(t)] = WS THEN RStrip(SubSeq(t, 1, Len(t) - 1)) ELSE t
Strip(t) == RStrip(LStrip(t))

\* len(text): get_text(strip=True) joins the strings without separator
RECURSIVE TextLen(_)
TextLen(t) == IF t = <<>> THEN 0 ELSE Len(Head(t)) + TextLen(Tail(t))
\* text[:n]: the first n characters; the word that straddles position n is cut
RECURSIVE TakeChars(_, _)
TakeChars(t, n) ==
    IF t = <<>> \/ n <= 0 THEN <<>>
    ELSE IF Len(Head(t)) <= n THEN <<Head(t)>> \o TakeChars(Tail(t), n - Len(Head(t)))
    ELSE <<SubSeq(Head(t), 1, n)>>

\* re.search(r"speaker notes\s*:\s*", text, IGNORECASE)
HasMarker(t) == \E i \in 1..Len(t) : t[i] = MARKER
FirstMarker(t) == CHOOSE i \in 1..Len(t) : t[i] = MARKER /\ \A j \in 1..(i - 1) : t[j] # MARKER
\* re.split(marker, text, maxsplit=1): the text before and after the first marker
SplitBefore(t) == SubSeq(t, 1, FirstMarker(t) - 1)
SplitAfter(t)  == SubSeq(t, FirstMarker(t) + 1, Len(t))

\* re.sub(r'^slide\s*\d+\s*:\s*', '', text, IGNORECASE)
StripSlidePrefix(t) == IF t # <<>> /\ Head(t) \in {PFX, PFXL} THEN Tail(t) ELSE t
\* re.sub(r'^subtitle\s*:\s*', '', text, IGNORECASE).strip()
StripSubtitlePrefix(t) == Strip(IF t # <<>> /\ Head(t) = SUBPFX THEN Tail(t) ELSE t)

\* ---------------------------------------------------------------- the content tree
\* A tree is a sequence of top-level blocks.  A block is
\*   [k, name, text, child, items, rows, removed]
\*   k = "h"          <name>text</name>
\*   k = "p"          <p>text<child>c</child></p>         child: none, span, code
\*   k = "blockquote" <blockquote><p>text</p></blockquote> (child = "p")
\*   k = "pre"        <pre><code>text</code></pre>         (child = "code")
\*   k = "cm"         <div class="cm-line">text</div>
\*   k = "table"      <table> rows of cells </table>
\*   k = "ul"         <ul> items </ul>, an item is [text, inl, nested]:
\*                    <li>text<inl>c</inl><ul>nested</ul></li>, and for
\*                    inl = "p" the item text is inside the <p> (loose list)
\* An element is identified by its path: <<n>> is block n, <<n, 0>> its child;
\* item i of the list at path q is q \o <<i>>, its inline child q \o <<i, 0>>
\* and its nested list q \o <<i, 1>>.
InlineText == <<"c">>

ItemOwnStrings(it) == IF it.inl = "p" THEN <<>> ELSE it.text
ItemChildText(it)  == IF it.inl = "p" THEN it.text
                      ELSE IF it.inl = "none" THEN <<>> ELSE InlineText

\* Tag.get_text(strip=True) of a list: all strings in document order
RECURSIVE ULText(_)
ULText(items) ==
    IF items = <<>> THEN <<>>
    ELSE LET it == Head(items)
         IN  ItemOwnStrings(it) \o ItemChildText(it) \o ULText(it.nested) \o ULText(Tail(items))

TableText(rows) == Concat([i \in 1..Len(rows) |-> Concat(rows[i])])

BlockText(b) ==
    CASE b.k = "ul"    -> ULText(b.items)
      [] b.k = "table" -> TableText(b.rows)
      [] b.k = "p"     -> b.text \o (IF b.child = "none" THEN <<>> ELSE InlineText)
      [] OTHER         -> b.text

Elem(path, name, cls, text, anc, items, rows) ==
    [path |-> path, name |-> name, cls |-> cls, text |-> text, anc |-> anc,
     items |-> items, rows |-> rows]

\* find_all(..., recursive=True) visits the tree in document (pre-) order
RECURSIVE ULElems(_, _, _), ItemsElems(_, _, _, _)
ULElems(path, items, anc) ==
    <<Elem(path, "ul", "", ULText(items), anc, items, <<>>)>>
      \o ItemsElems(path, items, 1, anc \cup {"ul", "li"})
ItemsElems(path, items, i, anc) ==
    IF i > Len(items) THEN <<>>
    ELSE LET it == items[i]
             ip == path \o <<i>>
         IN  (IF it.inl = "none" THEN <<>>
              ELSE <<Elem(ip \o <<0>>, it.inl, "", ItemChildText(it), anc, <<>>,
                          IF it.inl = "table" THEN << <<InlineText>> >> ELSE <<>>)>>)
             \o (IF it.nested = <<>> THEN <<>> ELSE ULElems(ip \o <<1>>, it.nested, anc))
             \o ItemsElems(path, items, i + 1, anc)

BlockElems(b, n) ==
    IF b.removed THEN <<>>
    ELSE CASE b.k = "h"  -> <<Elem(<<n>>, b.name, "", b.text, {}, <<>>, <<>>)>>
           [] b.k = "p"  -> <<Elem(<<n>>, "p", "", BlockText(b), {}, <<>>, <<>>)>>
                            \o (IF b.child = "none" THEN <<>>
                                ELSE <<Elem(<<n, 0>>, b.child, "", InlineText, {"p"}, <<>>, <<>>)>>)
           [] b.k = "blockquote" ->
                            <<Elem(<<n>>, "blockquote", "", b.text, {}, <<>>, <<>>)>>
                            \o (IF b.child = "none" THEN <<>>
                                ELSE <<Elem(<<n, 0>>, "p", "", b.text, {"blockquote"}, <<>>, <<>>)>>)
           [] b.k = "pre" -> <<Elem(<<n>>, "pre", "", b.text, {}, <<>>, <<>>),
                               Elem(<<n, 0>>, "code", "", b.text, {"pre"}, <<>>, <<>>)>>
           [] b.k = "cm"  -> <<Elem(<<n>>, "div", "cm-line", b.text, {}, <<>>, <<>>)>>
           [] b.k = "table" -> <<Elem(<<n>>, "table", "", TableText(b.rows), {}, <<>>, b.rows)>>
           [] b.k = "ul"  -> ULElems(<<n>>, b.items, {})

AllElems(tree) == Concat([n \in 1..Len(tree) |-> BlockElems(tree[n], n)])

RECURSIVE SelectNames(_, _)
SelectNames(es, names) ==
    IF es = <<>> THEN <<>>
    ELSE (IF Head(es).name \in names THEN <<Head(es)>> ELSE <<>>) \o SelectNames(Tail(es), names)

\* content_div.find_all(names, recursive=True)
find_all(tree, names) == SelectNames(AllElems(tree), names)

\* Tag.decompose(): the element and everything below it leave the tree
RECURSIVE DecomposeInItems(_, _)
DecomposeInItems(items, rest) ==
    \* rest = <<i, 0>>: the <p> child of item i;  <<i, 1, ...>>: below item i's nested list
    LET i == Head(rest)
    IN  IF rest[2] = 0
        THEN [items EXCEPT ![i] = [@ EXCEPT !.inl = "none", !.text = <<>>]]
        ELSE [items EXCEPT ![i] = [@ EXCEPT !.nested = DecomposeInItems(@, SubSeq(rest, 3, Len(rest)))]]

decompose(tree, path) ==
    LET n == Head(path)
    IN  IF Len(path) = 1 THEN [tree EXCEPT ![n] = [@ EXCEPT !.removed = TRUE]]
        ELSE IF tree[n].k = "ul"
             THEN [tree EXCEPT ![n] = [@ EXCEPT !.items = DecomposeInItems(@, Tail(path))]]
             ELSE [tree EXCEPT ![n] = [@ EXCEPT !.child = "none", !.text = <<>>]]


\* ---------------------------------------------------------------- inputs
X10 == "0123456789"
X50 == X10 \o X10 \o X10 \o X10 \o X10
\* a word of 101 characters
LongWord == X50 \o X50 \o "x"
\* a table cell of 201 characters
LongCell == X50 \o X50 \o X50 \o X50 \o "x"

Blk(k, name, text, child, items, rows) ==
    [k |-> k, name |-> name, text |-> text, child |-> child, items |-> items,
     rows |-> rows, removed |-> FALSE]
Item(text, inl, nested) == [text |-> text, inl |-> inl, nested |-> nested]

\* a list nested seven deep (depths 0..6), the item at depth 2 without text of its own
DeepItems ==
    <<Item(<<"a">>, "none", <<Item(<<"b">>, "none", <<Item(<<>>, "none",
      <<Item(<<"a">>, "none", <<Item(<<"b">>, "none", <<Item(<<"a">>, "none",
        <<Item(<<"b">>, "none", <<>>)>>)>>)>>)>>)>>)>>)>>

HeadingBlocks ==
    { Blk("h", "h1", <<PFX, "a">>, "none", <<>>, <<>>),
      Blk("h", "h2", <<"b">>, "none", <<>>, <<>>),
      Blk("h", "h3", <<"a">>, "none", <<>>, <<>>),
      Blk("h", "h3", <<PFXL, LongWord>>, "none", <<>>, <<>>),
      Blk("h", "h3", <<"b", MARKER, "n">>, "none", <<>>, <<>>) }
ParagraphBlocks ==
    { Blk("p", "p", t, "none", <<>>, <<>>) :
        t \in { <<"b">>, <<SUBPFX, "b">>, <<MARKER, "n">>, <<MARKER, "m">>,
                <<"a", MARKER, "n">>, <<MARKER>> } }
ListBlocks ==
    { Blk("ul", "ul", <<>>, "none", its, <<>>) :
        its \in { <<Item(<<"a">>, "none", <<>>), Item(<<"b">>, "none", <<>>)>>,
                  <<Item(<<"a">>, "none", <<>>), Item(<<"b", MARKER, "n">>, "none", <<>>)>>,
                  <<Item(<<"a">>, "code", <<>>)>>,
                  <<Item(<<"a">>, "p", <<>>)>>,
                  <<Item(<<"a">>, "table", <<>>)>>,
                  DeepItems,
                  <<Item(<<>>, "none", <<Item(<<MARKER, "m">>, "none", <<>>)>>)>> } }
TableBlocks ==
    { Blk("table", "table", <<>>, "none", <<>>, rows) :
        rows \in { << << <<"a">>, <<LongCell>> >>, << <<"a">> >> >>, <<>> } }
OtherBlocks ==
    { Blk("pre", "pre", <<"a">>, "code", <<>>, <<>>),
      Blk("cm", "div", <<"a">>, "none", <<>>, <<>>),
      Blk("blockquote", "blockquote", <<"a">>, "p", <<>>, <<>>) }

Blocks == HeadingBlocks \cup ParagraphBlocks \cup ListBlocks \cup TableBlocks \cup OtherBlocks

\* the content trees handed to create_enhanced_presentation
Docs == UNION { [1..n -> Blocks] : n \in 0..MaxBlocks }

\* ---------------------------------------------------------------- state
VARIABLES
    pc,                 \* position inside create_enhanced_presentation
    tree,               \* content_div
    elements, idx,      \* the find_all result being iterated and the loop index
    heading, subheading, speaker_notes,     \* locals of the title extraction (<<>> = None or "")
    slides,             \* prs.slides
    current_slide,      \* index into slides, 0 = None
    content_box,        \* "None", "text_frame" or "placeholder"
    code_buffer,        \* buffered cm-line texts
    processed_elements, \* identities of handled elements
    slide_count, notes_seen, speaker_notes_txt,   \* fields of the generator
    result,             \* "none", "True", "False"
    artifact,           \* slides saved at output_path, or <<>>
    notes_file,         \* blocks of the transcript file
    env,                \* the platform and the disk as _save_presentation finds them
    artifact_state,     \* the file at output_path: "absent", "partial" or "complete"
    raised,             \* the exception caught at line 113, "none" if none
    trace,              \* history of what each step did (for stating the properties)
    users_col,          \* auth.py: the documents of the collection "users", in insertion order
    session             \* auth.py: per browser session, where its sign_up_user call stands

vars == <<pc, tree, elements, idx, heading, subheading, speaker_notes, slides,
          current_slide, content_box, code_buffer, processed_elements,
          slide_count, notes_seen, speaker_notes_txt, result, artifact, notes_file,
          env, artifact_state, raised, trace, users_col, session>>

Ev(op, path, slide, text, flag) ==
    [op |-> op, path |-> path, slide |-> slide, text |-> text, flag |-> flag]

\* Config() as app.py line 199 constructs it.  class Config (lines 16-35) carries no
\* @dataclass decorator, so no __init__ is generated and __post_init__ never runs:
\* font_fallbacks stays the class attribute None (here: the table without keys)
font_fallbacks == [key \in {} |-> ""]

\* _set_font_safely: the font name the paragraph ends with.  font_fallbacks[...] on
\* a missing table or key raises, and so does 'default', whose helper
\* _get_appropriate_font is commented out; the handler then sets 'Arial'
SetFontSafely(font_type) ==
    LET key == IF font_type = "code" THEN "code"
               ELSE IF font_type = "heading" THEN "calibri"
               ELSE "_get_appropriate_font"
    IN  IF font_type \in {"code", "heading"} /\ key \in DOMAIN font_fallbacks
        THEN font_fallbacks[key]
        ELSE "Arial"

\* a paragraph of a text frame; code blocks get a:buNone and the 'code' font (lines
\* 438-449), list lines the 'default' font (line 370), the rest what the layout gives
Para(text, level, kind, src) ==
    [text |-> text, level |-> level, kind |-> kind, src |-> src,
     font |-> IF kind = "code" THEN SetFontSafely("code")
              ELSE IF kind = "list" THEN SetFontSafely("default")
              ELSE "inherited",
     bullet |-> IF kind = "code" THEN "buNone" ELSE "inherited"]
EmptyPara == Para(<<>>, 0, "empty", <<>>)
Slide(layout, title, body, src) ==
    [layout |-> layout, title |-> title, body |-> body, tables |-> <<>>, notes |-> <<>>, src |-> src]

\* 10 * 1024 * 1024 bytes, line 560
MinHeadroom == 10 * 1024 * 1024

\* the browser sessions that may register at the same time (Streamlit runs each
\* session's script in a thread of its own)
MaxSessions == 3
Sessions == 1..MaxSessions
Usernames == {"u", "v"}
Idle == [pc |-> "idle", username |-> "", result |-> <<>>]

\* PowerPointGenerator.__init__, and auth.py at import with an empty collection
Init ==
    /\ pc = "idle"
    /\ tree = <<>>
    /\ elements = <<>>
    /\ idx = 0
    /\ heading = <<>>
    /\ subheading = <<>>
    /\ speaker_notes = <<>>
    /\ slides = <<>>
    /\ current_slide = 0
    /\ content_box = "None"
    /\ code_buffer = <<>>
    /\ processed_elements = {}
    /\ slide_count = 0
    /\ notes_seen = {}
    /\ speaker_notes_txt = <<>>
    /\ result = "none"
    /\ artifact = <<>>
    /\ notes_file = <<>>
    /\ env = [statvfs |-> FALSE, available_space |-> MinHeadroom]
    /\ artifact_state = "absent"
    /\ raised = "none"
    /\ trace = <<>>
    /\ users_col = <<>>
    /\ session = [s \in Sessions |-> Idle]

generator == <<slide_count, notes_seen, speaker_notes_txt>>
outputs   == <<result, artifact, notes_file, env, artifact_state, raised>>
auth      == <<users_col, session>>
body_locals == <<current_slide, content_box, code_buffer, processed_elements>>
title_locals == <<heading, subheading, speaker_notes>>

\* ---------------------------------------------------------------- create_enhanced_presentation
\* entry: prs = Presentation(); elements = find_all(["h1","h2","p"]).  The loop at
\* lines 60-62 only breaks and changes nothing.
Call ==
    /\ UNCHANGED auth
    /\ pc = "idle"
    /\ \E doc \in Docs :
         /\ tree' = doc
         /\ elements' = find_all(doc, TitleNames)
    /\ idx' = 1
    /\ heading' = <<>>
    /\ subheading' = <<>>
    /\ speaker_notes' = <<>>
    /\ slides' = <<>>
    /\ pc' = "title_scan"
    /\ UNCHANGED <<body_locals, generator, outputs, trace>>

\* lines 113-115: except Exception: log the error and return False
OnExceptionReraise(exc) == exc
OnException(exc) == "False"

\* entry with content_div = None (soup.body of a text without elements, app.py line
\* 192): content_div.find_all at line 59 raises AttributeError
CallWithoutBody ==
    /\ UNCHANGED auth
    /\ pc = "idle"
    /\ raised' = "AttributeError"
    /\ result' = OnException("AttributeError")
    /\ pc' = "done"
    /\ UNCHANGED <<tree, elements, idx, title_locals, slides, body_locals, generator,
                   artifact, notes_file, env, artifact_state, trace>>

AllFound(h, s, n) == h # <<>> /\ s # <<>> /\ n # <<>>

\* lines 132 and 177: a notes key is recorded when its text is non-empty and it is new
NotesFreshNoDedup(key, seen) == key[2] # <<>>
NotesFresh(key, seen) == key[2] # <<>> /\ key \notin seen

\* one iteration of the extraction loop on an element carrying the notes marker
TitleScanNotes ==
    /\ UNCHANGED auth
    /\ pc = "title_scan"
    /\ idx <= Len(elements)
    /\ LET el   == elements[idx]
           text == StripSlidePrefix(el.text)
       IN  /\ HasMarker(text)
           /\ speaker_notes' = Strip(SplitAfter(text))
           /\ tree' = decompose(tree, el.path)
           /\ trace' = Append(trace, Ev("take_notes", el.path, idx, SplitAfter(text),
                                        AllFound(heading, subheading, speaker_notes)))
    /\ idx' = idx + 1
    /\ UNCHANGED <<pc, elements, heading, subheading, slides, body_locals, generator, outputs>>

\* one iteration on an element without marker: heading, then subheading, then the break test
TitleScanText ==
    /\ UNCHANGED auth
    /\ pc = "title_scan"
    /\ idx <= Len(elements)
    /\ LET el   == elements[idx]
           text == StripSlidePrefix(el.text)
           h2   == IF heading = <<>> THEN text ELSE heading
           s2   == IF heading # <<>> /\ subheading = <<>> THEN text ELSE subheading
           took == heading = <<>> \/ subheading = <<>>
       IN  /\ ~HasMarker(text)
           /\ heading' = h2
           /\ subheading' = s2
           /\ tree' = IF took THEN decompose(tree, el.path) ELSE tree
           /\ trace' = IF took
                       THEN Append(trace, Ev("take_text", el.path, idx, text,
                                             AllFound(heading, subheading, speaker_notes)))
                       ELSE trace
           /\ IF AllFound(h2, s2, speaker_notes)
              THEN pc' = "title_slide" /\ idx' = idx
              ELSE pc' = pc /\ idx' = idx + 1
    /\ UNCHANGED <<elements, speaker_notes, slides, body_locals, generator, outputs>>

\* add_custom_title_slide(prs, heading or " ", subheading or " ", speaker_notes or "")
add_custom_title_slide ==
    /\ UNCHANGED auth
    /\ \/ pc = "title_slide"
       \/ pc = "title_scan" /\ idx > Len(elements)   \* the loop ran off the end of elements
    /\ LET h     == IF heading = <<>> THEN <<WS>> ELSE heading
           sub   == StripSubtitlePrefix(IF subheading = <<>> THEN <<WS>> ELSE subheading)
           notes == Strip(speaker_notes)
           slide == [Slide(0, h, <<Para(sub, 0, "text", <<>>)>>, <<>>) EXCEPT
                        !.notes = IF speaker_notes # <<>> THEN notes ELSE <<>>]
           slide_index == Len(slides)          \* prs.slides.index(slide) after add_slide
           notes_key == <<slide_index + 1, notes>>
           fresh == speaker_notes # <<>> /\ NotesFresh(notes_key, notes_seen)
       IN  /\ slides' = Append(slides, slide)
           /\ notes_seen' = IF fresh THEN notes_seen \cup {notes_key} ELSE notes_seen
           /\ speaker_notes_txt' = IF fresh THEN Append(speaker_notes_txt, notes_key)
                                   ELSE speaker_notes_txt
    /\ slide_count' = slide_count + 1
    /\ pc' = "body_start"
    /\ UNCHANGED <<tree, elements, idx, title_locals, body_locals, outputs, trace>>


\* ---------------------------------------------------------------- slide helpers
\* The document under construction as the helpers see it.
St == [slides |-> slides, cur |-> current_slide, box |-> content_box,
       count |-> slide_count, buf |-> code_buffer, raised |-> FALSE]

TitleMaxLen == 100
\* clean_title[:100] + "..." if len(clean_title) > 100 else clean_title
SlideTitleNoEllipsis(title) == TakeChars(StripSlidePrefix(title), TitleMaxLen)
SlideTitle(title) ==
    LET clean_title == StripSlidePrefix(title)
    IN  IF TextLen(clean_title) > TitleMaxLen
        THEN TakeChars(clean_title, TitleMaxLen) \o <<"...">>
        ELSE clean_title

\* _add_content_slide: a new "Title and Content" slide; returns (slide, text_frame)
AddContentSlide(st, title, src) ==
    [st EXCEPT !.slides = Append(@, Slide(1, SlideTitle(title), <<EmptyPara>>, src)),
               !.cur = Len(st.slides) + 1,
               !.box = "text_frame",
               !.count = @ + 1]

\* _ensure_slide: a new slide if none is open, else (current_slide, placeholders[1])
EnsureSlide(st, default_title, src) ==
    IF st.cur = 0 THEN AddContentSlide(st, default_title, src)
    ELSE [st EXCEPT !.box = "placeholder"]

AppendPara(st, para) ==
    [st EXCEPT !.slides[st.cur].body = Append(@, para)]

\* _add_code_content(content_box, code_text: str).  content_box.text_frame exists on a
\* placeholder only: on the text_frame that _add_content_slide returned the access raises.
max_slide_content_length == 1000
AddCodeContent(st, code_text, src) ==
    IF Strip(code_text) = <<>> THEN st
    ELSE IF st.box # "placeholder" THEN [st EXCEPT !.raised = TRUE]
    ELSE AppendPara(st, Para(TakeChars(code_text, max_slide_content_length), 0, "code", src))

NL == "\n"
RECURSIVE JoinLines(_)
JoinLines(buf) ==
    IF Len(buf) <= 1 THEN Concat(buf) ELSE Head(buf) \o <<NL>> \o JoinLines(Tail(buf))

\* lines 195-199: flush the buffered code lines before a node that is not a code line
Flush(st) ==
    IF st.buf = <<>> THEN st
    ELSE LET r == AddCodeContent(EnsureSlide(st, <<"Content">>, <<>>), JoinLines(st.buf), <<>>)
         IN  IF r.raised THEN r ELSE [r EXCEPT !.buf = <<>>]

\* ---------------------------------------------------------------- lists
ListMaxLevel == 4
Min(a, b) == IF a < b THEN a ELSE b

OnlyBlank(body) == Len(body) = 1 /\ Strip(body[1].text) = <<>>

\* " ".join(text_parts).strip() of one <li>: its own strings and its non-list children
ItemLine(it) == Strip(ItemOwnStrings(it) \o ItemChildText(it))

\* _process_list_recursive on a body (the paragraphs of the text frame)
RECURSIVE RenderList(_, _, _, _), RenderItems(_, _, _, _, _)
RenderList(body, items, level, path) ==
    RenderItems(IF OnlyBlank(body) THEN <<>> ELSE body, items, 1, level, path)
RenderItems(body, items, i, level, path) ==
    IF i > Len(items) THEN body
    ELSE LET it   == items[i]
             text == ItemLine(it)
             para == Para(text, Min(level, ListMaxLevel), "list", path \o <<i>>)
             b1   == IF text = <<>> THEN body
                     ELSE IF OnlyBlank(body) THEN <<para>>
                     ELSE Append(body, para)
             b2   == IF it.nested = <<>> THEN b1
                     ELSE RenderList(b1, it.nested, level + 1, path \o <<i, 1>>)
         IN  RenderItems(b2, items, i + 1, level, path)

\* _add_list_content(content_box, list_element)
AddListContent(st, el) ==
    IF st.box # "placeholder" THEN [st EXCEPT !.raised = TRUE]
    ELSE [st EXCEPT !.slides[st.cur].body = RenderList(@, el.items, 0, el.path)]

\* ---------------------------------------------------------------- tables
RowLens(rows) == { Len(rows[i]) : i \in 1..Len(rows) } \ {0}
MaxOf(S) == CHOOSE m \in S : \A x \in S : x <= m
CellMaxLen == 200
\* cell.text = cell_text[:200], "" for the cells a short row lacks
PadRowNoPad(row, n) == [j \in 1..Len(row) |-> TakeChars(row[j], CellMaxLen)]
PadRow(row, n) == [j \in 1..n |-> IF j <= Len(row) THEN TakeChars(row[j], CellMaxLen) ELSE <<>>]

\* _add_table_to_slide(slide, table_element); max() of no row lengths raises ValueError,
\* which the method itself catches
AddTableToSlide(st, el) ==
    IF el.rows = <<>> \/ RowLens(el.rows) = {} THEN st
    ELSE LET max_cols == MaxOf(RowLens(el.rows))
             table == [src |-> el.path,
                       cells |-> [i \in 1..Len(el.rows) |-> PadRow(el.rows[i], max_cols)]]
         IN  [st EXCEPT !.slides[st.cur].tables = Append(@, table)]


\* ---------------------------------------------------------------- _process_content_elements
\* lines 144-155: no slide open, the stream is every recognised element in document order
BeginProcessContent ==
    /\ UNCHANGED auth
    /\ pc = "body_start"
    /\ current_slide' = 0
    /\ content_box' = "None"
    /\ elements' = find_all(tree, BodyNames)
    /\ idx' = 1
    /\ code_buffer' = <<>>
    /\ processed_elements' = {}
    /\ pc' = "body"
    /\ UNCHANGED <<tree, title_locals, slides, generator, outputs, trace>>

InBody == pc = "body" /\ idx <= Len(elements)
IsCmLine(e) == e.name = "div" /\ e.cls = "cm-line"

\* lines 201-217: elements that belong to an enclosing element
IsNested(e) ==
    \/ e.name \in {"p", "span"} /\ e.anc \cap {"ul", "ol", "li"} # {}
    \/ e.name = "p" /\ "li" \in e.anc
    \/ e.name = "span" /\ e.anc \cap {"p", "li"} # {}
    \/ e.name = "code" /\ "pre" \in e.anc

\* line 227: a list that is not inside another list
IsTopLevelList(e) == e.name \in {"ol", "ul"} /\ e.anc \cap {"ul", "ol"} = {}

\* the assignments every iteration ends with
Commit(st, e) ==
    /\ slides' = st.slides
    /\ current_slide' = st.cur
    /\ content_box' = st.box
    /\ slide_count' = st.count
    /\ code_buffer' = st.buf
    /\ processed_elements' = processed_elements \cup {e.path}
    /\ idx' = idx + 1
    /\ UNCHANGED <<pc, tree, elements, title_locals, outputs>>

\* lines 158-161 and 201-217: nothing is rendered for the element
BodySkip ==
    /\ UNCHANGED auth
    /\ InBody
    /\ LET e == elements[idx]
       IN  IF e.path \in processed_elements
           THEN /\ idx' = idx + 1
                /\ UNCHANGED <<pc, tree, elements, title_locals, slides, body_locals,
                               generator, outputs, trace>>
           ELSE /\ ~HasMarker(e.text)
                /\ ~IsCmLine(e)
                /\ ~Flush(St).raised
                /\ IsNested(e)
                /\ Commit(Flush(St), e)
                /\ UNCHANGED <<notes_seen, speaker_notes_txt, trace>>

\* lines 166-184: an element whose text holds the notes marker
BodyNotes ==
    /\ UNCHANGED auth
    /\ InBody
    /\ LET e == elements[idx]
           notes_part == SplitAfter(e.text)
           notes_key == <<slide_count, Strip(notes_part)>>
           record == current_slide # 0 /\ NotesFresh(notes_key, notes_seen)
       IN  /\ e.path \notin processed_elements
           /\ HasMarker(e.text)
           /\ notes_seen' = IF record THEN notes_seen \cup {notes_key} ELSE notes_seen
           /\ speaker_notes_txt' = IF record THEN Append(speaker_notes_txt, notes_key)
                                   ELSE speaker_notes_txt
           /\ trace' = Append(trace, Ev("notes", e.path, current_slide, Strip(notes_part), record))
           /\ Commit(IF record THEN [St EXCEPT !.slides[current_slide].notes = Strip(notes_part)]
                     ELSE St, e)

\* lines 186-193: a code line is buffered
BodyCmLine ==
    /\ UNCHANGED auth
    /\ InBody
    /\ LET e == elements[idx]
       IN  /\ e.path \notin processed_elements
           /\ ~HasMarker(e.text)
           /\ IsCmLine(e)
           /\ Commit([St EXCEPT !.buf = IF e.text # <<>> THEN Append(@, e.text) ELSE @], e)
    /\ UNCHANGED <<notes_seen, speaker_notes_txt, trace>>

\* lines 195-199 with no slide open: the flush raises outside the try block, the
\* exception leaves _process_content_elements and is caught at line 113
BodyFlushRaises ==
    /\ UNCHANGED auth
    /\ InBody
    /\ LET e == elements[idx]
           st == Flush(St)
       IN  /\ e.path \notin processed_elements
           /\ ~HasMarker(e.text)
           /\ ~IsCmLine(e)
           /\ st.raised
           /\ slides' = st.slides
           /\ current_slide' = st.cur
           /\ content_box' = st.box
           /\ slide_count' = st.count
           /\ trace' = Append(trace, Ev("abort", e.path, st.cur, <<>>, FALSE))
    /\ pc' = "done"
    /\ raised' = "AttributeError"
    /\ result' = OnException("AttributeError")
    /\ UNCHANGED <<tree, elements, idx, title_locals, code_buffer, processed_elements,
                   notes_seen, speaker_notes_txt, artifact, notes_file, env, artifact_state>>

\* the guard shared by the dispatch at lines 219-250
Dispatch(e) ==
    /\ e.path \notin processed_elements
    /\ ~HasMarker(e.text)
    /\ ~IsCmLine(e)
    /\ ~Flush(St).raised
    /\ ~IsNested(e)

\* lines 223-224: a heading opens a new slide
BodyHeading ==
    /\ UNCHANGED auth
    /\ InBody
    /\ LET e == elements[idx]
       IN  /\ Dispatch(e)
           /\ e.name \in HeadingNames
           /\ Commit(AddContentSlide(Flush(St), e.text, e.path), e)
    /\ UNCHANGED <<notes_seen, speaker_notes_txt, trace>>

\* lines 227-231; an exception of the renderer is caught at line 252
BodyList ==
    /\ UNCHANGED auth
    /\ InBody
    /\ LET e  == elements[idx]
           s1 == EnsureSlide(Flush(St), <<"List">>, <<>>)
           s2 == AddListContent(s1, e)
       IN  /\ Dispatch(e)
           /\ IsTopLevelList(e)
           /\ Commit(IF s2.raised THEN s1 ELSE s2, e)
           /\ trace' = IF s2.raised THEN Append(trace, Ev("raise", e.path, s1.cur, <<>>, FALSE))
                       ELSE trace
    /\ UNCHANGED <<notes_seen, speaker_notes_txt>>

\* lines 238-242
BodyTable ==
    /\ UNCHANGED auth
    /\ InBody
    /\ LET e  == elements[idx]
           s1 == EnsureSlide(Flush(St), <<"Content">>, <<>>)
       IN  /\ Dispatch(e)
           /\ ~IsTopLevelList(e)
           /\ e.name = "table"
           /\ Commit(AddTableToSlide(s1, e), e)
    /\ UNCHANGED <<notes_seen, speaker_notes_txt, trace>>

\* lines 245-248: _add_code_content is handed the element, not its text; the first
\* use of it as a string (code_text.strip()) raises, caught at line 252
BodyCode ==
    /\ UNCHANGED auth
    /\ InBody
    /\ LET e  == elements[idx]
           s1 == EnsureSlide(Flush(St), <<"Code">>, <<>>)
       IN  /\ Dispatch(e)
           /\ e.name \in {"pre", "code"}
           /\ Commit(s1, e)
           /\ trace' = Append(trace, Ev("raise", e.path, s1.cur, <<>>, FALSE))
    /\ UNCHANGED <<notes_seen, speaker_notes_txt>>

\* line 250: every other element (paragraph, quote, image, span, div, nested list)
BodyOther ==
    /\ UNCHANGED auth
    /\ InBody
    /\ LET e == elements[idx]
       IN  /\ Dispatch(e)
           /\ e.name \notin HeadingNames
           /\ ~IsTopLevelList(e)
           /\ e.name \notin {"table", "pre", "code"}
           /\ Commit(Flush(St), e)
    /\ UNCHANGED <<notes_seen, speaker_notes_txt, trace>>

\* the loop is over, _process_content_elements returns; lines 99-101
EnsureAtLeastOneSlide ==
    /\ UNCHANGED auth
    /\ pc = "body"
    /\ idx > Len(elements)
    /\ IF Len(slides) = 0
       THEN /\ slides' = Append(slides,
                   Slide(1, <<"No Content Found">>,
                         <<Para(<<"The canvas appears to be empty or could not be processed.">>,
                                0, "text", <<>>)>>, <<>>))
            /\ slide_count' = slide_count + 1
       ELSE UNCHANGED <<slides, slide_count>>
    /\ pc' = "save"
    /\ UNCHANGED <<tree, elements, idx, title_locals, body_locals, notes_seen,
                   speaker_notes_txt, outputs, trace>>

\* what _save_presentation can meet: os.statvfs present or not (line 557) and, where
\* it is present, the free space of the target directory around the 10 MB threshold;
\* where it is missing the free space is never asked for and one value stands for it
Envs ==
    { [statvfs |-> TRUE, available_space |-> a] : a \in {MinHeadroom - 1, MinHeadroom} }
    \cup { [statvfs |-> FALSE, available_space |-> MinHeadroom] }

\* _save_presentation, lines 550-569: the exception it leaves with ("none" if it
\* returns) and the state of the file at output_path afterwards.
\*   mkdir or the open of prs.save refused: PermissionError -> IOError, nothing written;
\*   os.statvfs present: stat.f_available is read, os.statvfs_result has no such
\*     attribute (the field is f_bavail): AttributeError, not an OSError, propagates;
\*   otherwise prs.save writes straight to output_path: complete, or an OSError
\*     part-way (-> IOError) that leaves what was written so far.
SaveOutcomes(e) ==
    IF e.statvfs
    THEN { [raised |-> "AttributeError", state |-> "absent"] }
    ELSE { [raised |-> "none", state |-> "complete"],
           [raised |-> "IOError: File system error", state |-> "partial"] }

\* the refusal comes from mkdir (line 554) or the open, before or without the
\* platform and the headroom being looked at: env keeps what it was
SavePresentation ==
    /\ UNCHANGED auth
    /\ pc = "save"
    /\ \/ /\ env' = env
          /\ raised' = "IOError: Permission denied"
          /\ artifact_state' = "absent"
          /\ artifact' = artifact
          /\ pc' = "done"
          /\ result' = OnException("IOError: Permission denied")
       \/ \E e \in Envs : \E o \in SaveOutcomes(e) :
            /\ env' = e
            /\ raised' = o.raised
            /\ artifact_state' = o.state
            /\ artifact' = IF o.state = "complete" THEN slides ELSE artifact
            /\ pc' = IF o.raised = "none" THEN "notes_file" ELSE "done"
            /\ result' = IF o.raised = "none" THEN result ELSE OnException(o.raised)
    /\ UNCHANGED <<tree, elements, idx, title_locals, slides, body_locals, generator,
                   notes_file, trace>>

\* _save_speaker_notes_textfile: the blocks written, duplicates and empty notes removed
RECURSIVE CleanedNotes(_, _)
CleanedNotes(list, seen) ==
    IF list = <<>> THEN <<>>
    ELSE LET key == <<Head(list)[1], Strip(Head(list)[2])>>
         IN  IF key[2] # <<>> /\ key \notin seen
             THEN <<key>> \o CleanedNotes(Tail(list), seen \cup {key})
             ELSE CleanedNotes(Tail(list), seen)

\* lines 106-111: the transcript is written only for a non-empty speaker_notes_txt, and
\* _save_speaker_notes_textfile swallows its own exceptions (lines 592-593)
WriteNotesAndReturn ==
    /\ UNCHANGED auth
    /\ pc = "notes_file"
    /\ \E written \in BOOLEAN :
         /\ written => speaker_notes_txt # <<>>
         /\ notes_file' = IF written THEN CleanedNotes(speaker_notes_txt, {}) ELSE notes_file
         /\ trace' = Append(trace, Ev("transcript", <<>>, 0, <<>>, written))
    /\ result' = "True"
    /\ pc' = "done"
    /\ UNCHANGED <<tree, elements, idx, title_locals, slides, body_locals, generator,
                   artifact, env, artifact_state, raised>>

Next ==
    \/ Call
    \/ CallWithoutBody
    \/ TitleScanNotes
    \/ TitleScanText
    \/ add_custom_title_slide
    \/ BeginProcessContent
    \/ BodySkip
    \/ BodyNotes
    \/ BodyCmLine
    \/ BodyFlushRaises
    \/ BodyHeading
    \/ BodyList
    \/ BodyTable
    \/ BodyCode
    \/ BodyOther
    \/ EnsureAtLeastOneSlide
    \/ SavePresentation
    \/ WriteNotesAndReturn

Spec == Init /\ [][Next]_vars

\* ---------------------------------------------------------------- repeated builds
\* One PowerPointGenerator used for several calls of create_enhanced_presentation:
\* __init__ (lines 43-48) is the only place that sets speaker_notes_txt, notes_seen
\* and slide_count, a call resets none of them.
MaxBuilds == 2
Builds == Cardinality({ i \in 1..Len(trace) : trace[i].op = "call" })

BuildDocs ==
    { << Blk("h", "h3", <<"a">>, "none", <<>>, <<>>),
         Blk("ul", "ul", <<>>, "none",
             <<Item(<<"a">>, "none", <<>>), Item(<<"b", MARKER, "n">>, "none", <<>>)>>, <<>>),
         Blk("cm", "div", <<"a">>, "none", <<>>, <<>>) >>,
      << Blk("p", "p", <<MARKER, "m">>, "none", <<>>, <<>>),
         Blk("cm", "div", <<"a">>, "none", <<>>, <<>>),
         Blk("table", "table", <<>>, "none", <<>>, << << <<"a">> >> >>) >>,
      << Blk("p", "p", <<"b">>, "none", <<>>, <<>>),
         Blk("ul", "ul", <<>>, "none",
             <<Item(<<"a">>, "none", <<>>), Item(<<"b">>, "none", <<>>)>>, <<>>),
         Blk("pre", "pre", <<"a">>, "code", <<>>, <<>>) >>,
      << Blk("h", "h3", <<"a">>, "none", <<>>, <<>>),
         Blk("table", "table", <<>>, "none", <<>>, << << <<"a">> >> >>),
         Blk("blockquote", "blockquote", <<"a">>, "p", <<>>, <<>>) >> }

\* entry of a call on a generator that may have been used before, with a new
\* Presentation and a new output_path
CallBuild ==
    /\ UNCHANGED auth
    /\ pc \in {"idle", "done"}
    /\ Builds < MaxBuilds
    /\ \E doc \in BuildDocs :
         /\ tree' = doc
         /\ elements' = find_all(doc, TitleNames)
    /\ idx' = 1
    /\ heading' = <<>>
    /\ subheading' = <<>>
    /\ speaker_notes' = <<>>
    /\ slides' = <<>>
    /\ current_slide' = 0
    /\ content_box' = "None"
    /\ code_buffer' = <<>>
    /\ processed_elements' = {}
    /\ result' = "none"
    /\ artifact' = <<>>
    /\ notes_file' = <<>>
    /\ env' = [statvfs |-> FALSE, available_space |-> MinHeadroom]
    /\ artifact_state' = "absent"
    /\ raised' = "none"
    /\ trace' = Append(trace, Ev("call", <<>>, 0, <<>>, FALSE))
    /\ pc' = "title_scan"
    /\ UNCHANGED generator

BuildsNext ==
    \/ CallBuild
    \/ TitleScanNotes
    \/ TitleScanText
    \/ add_custom_title_slide
    \/ BeginProcessContent
    \/ BodySkip
    \/ BodyNotes
    \/ BodyCmLine
    \/ BodyFlushRaises
    \/ BodyHeading
    \/ BodyList
    \/ BodyTable
    \/ BodyCode
    \/ BodyOther
    \/ EnsureAtLeastOneSlide
    \/ SavePresentation
    \/ WriteNotesAndReturn

BuildsSpec == Init /\ [][BuildsNext]_vars

\* ---------------------------------------------------------------- auth.py, sign_up_user
build == <<pc, tree, elements, idx, heading, subheading, speaker_notes, slides,
           current_slide, content_box, code_buffer, processed_elements,
           slide_count, notes_seen, speaker_notes_txt, result, artifact, notes_file,
           env, artifact_state, raised, trace>>

\* app.py lines 240-242: the Register button calls sign_up_user(username, ...)
Register(s, u) ==
    /\ session[s].pc = "idle"
    /\ session' = [session EXCEPT ![s] = [pc |-> "find_one", username |-> u, result |-> <<>>]]
    /\ UNCHANGED <<users_col, build>>

\* lines 23-24: users_col.find_one({"username": username})
FindOne(s) ==
    /\ session[s].pc = "find_one"
    /\ LET found == \E i \in 1..Len(users_col) : users_col[i].username = session[s].username
       IN  session' = [session EXCEPT ![s] =
                         IF found
                         THEN [@ EXCEPT !.pc = "returned",
                                        !.result = <<FALSE, "Username already exists">>]
                         ELSE [@ EXCEPT !.pc = "insert_one"]]
    /\ UNCHANGED <<users_col, build>>

\* lines 27-37: hash the password, users_col.insert_one({...}); the code creates no
\* unique index on username, so the insert is never refused
InsertOne(s) ==
    /\ session[s].pc = "insert_one"
    /\ users_col' = Append(users_col, [username |-> session[s].username, role |-> "user"])
    /\ session' = [session EXCEPT ![s] = [@ EXCEPT !.pc = "returned",
                                                   !.result = <<TRUE, "Registration successful">>]]
    /\ UNCHANGED build

AuthNext ==
    \/ \E s \in Sessions, u \in Usernames : Register(s, u)
    \/ \E s \in Sessions : FindOne(s)
    \/ \E s \in Sessions : InsertOne(s)

AuthSpec == Init /\ [][AuthNext]_vars


\* ================================================================ properties
Range(seq) == { seq[i] : i \in 1..Len(seq) }
IsPrefix(p, q) == Len(p) <= Len(q) /\ SubSeq(q, 1, Len(p)) = p
MinOf(S) == CHOOSE m \in S : \A x \in S : m <= x
FallbackSlides(doc) == { k \in 1..Len(doc) : doc[k].title = <<"No Content Found">> }
BodySlides(doc) == { k \in 1..Len(doc) : doc[k].layout = 1 /\ k \notin FallbackSlides(doc) }
BodyTexts(sl) == [i \in 1..Len(sl.body) |-> sl.body[i].text]
ElemByPath(path) == elements[CHOOSE i \in 1..Len(elements) : elements[i].path = path]
\* everything a slide shows that came from an element: (source path, kind)
RenderedOn(sl) ==
    { <<sl.body[i].src, "para", i>> : i \in { j \in 1..Len(sl.body) : sl.body[j].src # <<>> } }
    \cup { <<sl.tables[i].src, "table", i>> : i \in 1..Len(sl.tables) }
    \cup (IF sl.src # <<>> THEN { <<sl.src, "title", 0>> } ELSE {})

\* C1: when the body pass creates no slide, the saved document holds exactly one
\* fallback slide titled "No Content Found", and for an empty input tree the
\* transcript is empty.
C1_FallbackWhenNoContent ==
    (pc = "done" /\ result = "True" /\ BodySlides(artifact) = {})
        => /\ Cardinality(FallbackSlides(artifact)) = 1
           /\ (tree = <<>> => notes_file = <<>>)

IsRoundTripInput(t) ==
    /\ Len(t) = 3
    /\ t[1].k = "h" /\ Len(t[1].text) > 1 /\ Head(t[1].text) = PFX /\ ~HasMarker(t[1].text)
    /\ t[2].k = "ul" /\ t[2].items # <<>>
    /\ \A i \in 1..Len(t[2].items) :
          LET it == t[2].items[i]
          IN  it.inl = "none" /\ it.nested = <<>> /\ it.text # <<>> /\ ~HasMarker(it.text)
    /\ t[3].k = "p" /\ t[3].child = "none" /\ Len(t[3].text) = 2 /\ Head(t[3].text) = MARKER

\* C2: a heading "Slide N: T", a bullet list and a trailing "speaker notes: X"
\* give a slide titled T whose body is exactly the bullets in order, with X in the
\* transcript for that slide.
C2_RoundTrip ==
    (pc = "done" /\ result = "True" /\ IsRoundTripInput(tree))
        => \E k \in 1..Len(artifact) :
              /\ artifact[k].title = Tail(tree[1].text)
              /\ BodyTexts(artifact[k]) = [i \in 1..Len(tree[2].items) |-> tree[2].items[i].text]
              /\ <<k, Tail(tree[3].text)>> \in Range(notes_file)

\* C3: the recorded notes hold no pair twice, every recorded text is non-empty and
\* trimmed, every slide ordinal is at least 1, and notes_seen is exactly the set of
\* recorded pairs.
C3_NotesAreASet ==
    /\ \A i, j \in 1..Len(speaker_notes_txt) :
          i # j => speaker_notes_txt[i] # speaker_notes_txt[j]
    /\ \A i \in 1..Len(speaker_notes_txt) :
          /\ speaker_notes_txt[i][1] >= 1
          /\ speaker_notes_txt[i][2] # <<>>
          /\ Strip(speaker_notes_txt[i][2]) = speaker_notes_txt[i][2]
    /\ notes_seen = Range(speaker_notes_txt)
\* a marker was detected on an open slide whose pair was already recorded, and dropped
C3_DuplicateDropped ==
    \E i \in 1..Len(trace) :
        /\ trace[i].op = "notes" /\ trace[i].slide # 0 /\ trace[i].text # <<>>
        /\ ~trace[i].flag
        /\ Cardinality({ j \in 1..Len(speaker_notes_txt) :
                            speaker_notes_txt[j] = <<trace[i].slide, trace[i].text>> }) = 1

SrcPos(src) == MinOf({ i \in 1..Len(elements) : IsPrefix(elements[i].path, src) })
HeadingsBefore(pos) == { j \in 1..(pos - 1) : elements[j].name \in HeadingNames }

\* C4: every heading of the body stream starts exactly one slide, and every block
\* rendered from a later element is on the slide of the nearest preceding heading.
C4_HeadingStartsSlide ==
    pc = "done" =>
        /\ \A i \in 1..Len(elements) :
              elements[i].name \in HeadingNames
                 => Cardinality({ k \in 1..Len(slides) : slides[k].src = elements[i].path }) = 1
        /\ \A k \in 1..Len(slides) : \A u \in RenderedOn(slides[k]) :
              (u[2] # "title" /\ HeadingsBefore(SrcPos(u[1])) # {})
                 => slides[k].src = elements[MaxOf(HeadingsBefore(SrcPos(u[1])))].path

\* C5: the notes of every marker detected in the body pass are recorded, for the
\* slide open at detection or else for the title slide.
C5_NotesNeverDiscarded ==
    \A i \in 1..Len(trace) :
        (trace[i].op = "notes" /\ trace[i].text # <<>>)
           => <<IF trace[i].slide = 0 THEN 1 ELSE trace[i].slide, trace[i].text>>
                 \in Range(speaker_notes_txt)

\* C6: the text before the marker of a marker node is body content of the owning
\* slide, and the marker itself is in no slide body.
C6_TextBeforeMarkerKept ==
    /\ \A i \in 1..Len(trace) :
          trace[i].op = "notes" =>
             LET pre   == SplitBefore(ElemByPath(trace[i].path).text)
                 owner == slides[IF trace[i].slide = 0 THEN 1 ELSE trace[i].slide]
             IN  \A w \in Range(pre) : \E p \in Range(owner.body) : w \in Range(p.text)
    /\ \A k \in 1..Len(slides) : \A p \in Range(slides[k].body) : MARKER \notin Range(p.text)

TitleHeadings == { i \in 1..Len(elements) :
                     elements[i].name \in HeadingNames /\ ~HasMarker(elements[i].text) }
TitleSubs == { i \in 1..Len(elements) :
                 TitleHeadings # {} /\ i > MinOf(TitleHeadings) /\ ~HasMarker(elements[i].text) }
TitleMarkers == { i \in 1..Len(elements) : HasMarker(elements[i].text) }
StillInTree(path) == \E e \in Range(find_all(tree, BodyNames)) : e.path = path

\* C7: the document starts with exactly one title slide built from the first
\* heading, the first following non-notes text block and the first notes marker,
\* and these three nodes are gone from the stream.
C7_TitleSlideFromFirsts ==
    /\ pc \in {"body_start", "body", "save", "notes_file", "done"}
          => { k \in 1..Len(slides) : slides[k].layout = 0 } = {1}
    /\ pc = "body_start" =>
          /\ TitleHeadings # {} =>
                /\ slides[1].title = StripSlidePrefix(elements[MinOf(TitleHeadings)].text)
                /\ ~StillInTree(elements[MinOf(TitleHeadings)].path)
          /\ TitleSubs # {} =>
                /\ slides[1].body[1].text = StripSubtitlePrefix(elements[MinOf(TitleSubs)].text)
                /\ ~StillInTree(elements[MinOf(TitleSubs)].path)
          /\ TitleMarkers # {} =>
                /\ slides[1].notes = Strip(SplitAfter(elements[MinOf(TitleMarkers)].text))
                /\ ~StillInTree(elements[MinOf(TitleMarkers)].path)

\* C8: the extraction removes at most one heading, one subheading and one notes
\* marker, and removes nothing once all three have been found.
C8_ScanStopsWhenComplete ==
    /\ Cardinality({ i \in 1..Len(trace) : trace[i].op = "take_notes" }) <= 1
    /\ Cardinality({ i \in 1..Len(trace) : trace[i].op = "take_text" }) <= 2
    /\ \A i \in 1..Len(trace) : trace[i].op \in {"take_notes", "take_text"} => ~trace[i].flag

IsContentNode(e) ==
    /\ ~HasMarker(e.text) /\ ~IsCmLine(e) /\ ~IsNested(e) /\ e.text # <<>>
    /\ \/ IsTopLevelList(e)
       \/ e.name \in {"table", "pre", "blockquote"}
       \/ e.name \in {"code", "p"} /\ e.anc = {}
ShowsElement(sl, e) == \E u \in RenderedOn(sl) : IsPrefix(e.path, u[1])

\* C9: a non-heading content node met while no slide is open gets a synthesized
\* slide with a default title, and its content is on that slide after the step.
C9_SynthesizedSlide ==
    [][ (InBody /\ current_slide = 0 /\ code_buffer = <<>> /\ IsContentNode(elements[idx]))
          => /\ current_slide' # 0
             /\ slides'[current_slide'].title \in {<<"Content">>, <<"List">>, <<"Code">>}
             /\ ShowsElement(slides'[current_slide'], elements[idx]) ]_vars

AllRendered == UNION { { <<k, u>> : u \in RenderedOn(slides[k]) } : k \in 1..Len(slides) }

\* C10: no element is rendered twice, and an element whose text is part of a
\* rendered list line is not rendered again as a block of its own.
C10_NoDoubleRender ==
    \A x, y \in AllRendered :
        x # y => /\ x[2][1] # y[2][1]
                 /\ ~(x[2][2] = "para" /\ y[2][1] = x[2][1] \o <<0>>)

\* the node the body pass is about to handle
AtNode == InBody /\ elements[idx].path \notin processed_elements
CodeBlockOf(buf) == Para(TakeChars(JoinLines(buf), max_slide_content_length), 0, "code", <<>>)

\* C11: code lines are buffered only while code-line nodes follow each other: when
\* the node being handled is of any other kind (a notes-marker node included) and
\* lines are buffered, the step puts them as one newline-joined code block on the
\* slide that was current and leaves the buffer empty.
C11_FlushBeforeOtherNode ==
    [][ (AtNode /\ code_buffer # <<>>
            /\ (~IsCmLine(elements[idx]) \/ HasMarker(elements[idx].text)))
          => LET k == IF current_slide # 0 THEN current_slide ELSE Len(slides) + 1
             IN  /\ code_buffer' = <<>>
                 /\ Len(slides') >= k
                 /\ CodeBlockOf(code_buffer) \in Range(slides'[k].body) ]_vars

\* C12: a rendering failure in the body pass (list, table, code block, flush of the
\* buffered code lines) skips that element only: the pass goes on with the next
\* element and the build is not ended by it.
C12_FailureSkipsOneElement ==
    [][ (InBody /\ Len(trace') > Len(trace) /\ trace'[Len(trace')].op \in {"raise", "abort"})
          => /\ pc' = "body"
             /\ idx' = idx + 1
             /\ result' = "none" ]_vars

\* C13: the caller of create_enhanced_presentation only ever gets True or False: every
\* exception of the title extraction, the body pass or the save ends the call with
\* False, and True is returned only with the whole artifact saved at output_path.
C13_NeverRaises ==
    /\ result \in {"none", "True", "False"}
    /\ (pc = "done") = (result # "none")
    /\ raised # "none" => pc = "done" /\ result = "False"
    /\ result = "True" => raised = "none" /\ artifact_state = "complete" /\ artifact = slides

\* a save that failed part-way was answered with False
C13_SaveFailureReturnedFalse ==
    pc = "done" /\ result = "False" /\ raised = "IOError: File system error"

\* C14: a build that returns False leaves no zero-byte or partly written file at
\* output_path: the file there is whole or does not exist.
C14_NoPartialArtifact ==
    result = "False" => artifact_state \in {"absent", "complete"}

\* C15: a build that returns True has written the artifact at output_path and the
\* transcript file next to it.
C15_TrueMeansBothFiles ==
    result = "True" => /\ artifact_state = "complete"
                       /\ \E i \in 1..Len(trace) : trace[i].op = "transcript" /\ trace[i].flag

\* C16: _save_presentation fails with an I/O error that names the cause, before any
\* byte is written, exactly when less than 10 MB are free; with 10 MB or more free it
\* goes on to write the artifact.
C16_HeadroomChecked ==
    [][ pc = "save"
          => IF env'.available_space < MinHeadroom
             THEN /\ raised' \in {"IOError: Insufficient disk space",
                                  "IOError: Permission denied"}
                  /\ artifact_state' = "absent"
             ELSE raised' \in {"none", "IOError: File system error",
                               "IOError: Permission denied"} ]_vars

\* C17: the transcript has one block per slide, in slide order: the slide numbers of
\* its blocks are strictly increasing.
C17_TranscriptSlideOrder ==
    \A i, j \in 1..Len(notes_file) : i < j => notes_file[i][1] < notes_file[j][1]

\* the items of a list with their depth and the text of their own (nested lists left out)
RECURSIVE ItemsAt(_, _, _)
ItemsAt(items, path, d) ==
    UNION { { [path |-> path \o <<i>>, depth |-> d, line |-> ItemLine(items[i])] }
              \cup ItemsAt(items[i].nested, path \o <<i, 1>>, d + 1) : i \in 1..Len(items) }
MaxIndent == 4
LinesOf(body, path) == { i \in 1..Len(body) : body[i].kind = "list" /\ body[i].src = path }

\* C18: when a list is handled, each of its items at depth d (top level 0) with text
\* of its own is on the slide afterwards as exactly one line at level min(d, 4), an
\* item without text of its own has no line (its nested lists have theirs), and no
\* line of the slide has a level above 4.
C18_ListLevels ==
    [][ (AtNode /\ code_buffer = <<>> /\ ~HasMarker(elements[idx].text)
            /\ IsTopLevelList(elements[idx]))
          => /\ current_slide' # 0
             /\ LET body == slides'[current_slide'].body
                     e == elements[idx]
                 IN  /\ \A it \in ItemsAt(e.items, e.path, 0) :
                            IF it.line = <<>> THEN LinesOf(body, it.path) = {}
                            ELSE /\ Cardinality(LinesOf(body, it.path)) = 1
                                 /\ \A i \in LinesOf(body, it.path) :
                                        /\ body[i].text = it.line
                                        /\ body[i].level = Min(it.depth, MaxIndent)
                     /\ \A i \in 1..Len(body) : body[i].level <= MaxIndent ]_vars

\* the characters of a text
RECURSIVE Chars(_)
Chars(t) == IF t = <<>> THEN "" ELSE Head(t) \o Chars(Tail(t))
MaxCellChars == 200
RenderedTables ==
    UNION { { <<k, i>> : i \in 1..Len(slides[k].tables) } : k \in 1..Len(slides) }
TableAt(x) == slides[x[1]].tables[x[2]]
NonEmptyRows(rows) == { r \in 1..Len(rows) : rows[r] # <<>> }

\* C19: a rendered table comes from a table with a row that has cells; it has the
\* rows of its source and the columns of the longest row; every row holds the first
\* 200 characters of each of its cells followed by empty cells up to that width;
\* and rendering a table never raises.
C19_RenderedTableShape ==
    /\ \A x \in RenderedTables :
          LET cells == TableAt(x).cells
              rows  == ElemByPath(TableAt(x).src).rows
          IN  /\ NonEmptyRows(rows) # {}
              /\ Len(cells) = Len(rows)
              /\ \A r \in 1..Len(rows) :
                    /\ \A q \in 1..Len(rows) : Len(cells[r]) >= Len(rows[q])
                    /\ \E q \in 1..Len(rows) : Len(cells[r]) = Len(rows[q])
                    /\ \A c \in 1..Len(cells[r]) :
                          /\ Len(Chars(cells[r][c])) <= MaxCellChars
                          /\ Chars(cells[r][c]) =
                                IF c > Len(rows[r]) THEN ""
                                ELSE SubSeq(Chars(rows[r][c]), 1,
                                            Min(MaxCellChars, Len(Chars(rows[r][c]))))
    /\ \A i \in 1..Len(trace) :
          trace[i].op = "raise" => ElemByPath(trace[i].path).name # "table"

\* a table with a row of two cells, one of them longer than 200 characters, and a
\* row of one cell has been rendered
C19_RaggedLongTableRendered ==
    \E x \in RenderedTables :
        LET rows == ElemByPath(TableAt(x).src).rows
        IN  /\ \E r, q \in 1..Len(rows) : 0 < Len(rows[r]) /\ Len(rows[r]) < Len(rows[q])
            /\ \E r \in 1..Len(rows) : \E c \in 1..Len(rows[r]) :
                   Len(Chars(rows[r][c])) > MaxCellChars

\* C20: handling a table without rows or without cells changes nothing in the
\* document: the slides, the current slide and the slide count stay as they were.
C20_EmptyTableIsSkipped ==
    [][ (AtNode /\ code_buffer = <<>> /\ elements[idx].name = "table"
            /\ NonEmptyRows(elements[idx].rows) = {})
          => /\ slides' = slides
             /\ current_slide' = current_slide
             /\ slide_count' = slide_count ]_vars

MaxCodeChars == 1000
\* the code text of the node being handled: the buffered lines joined by newlines
\* when the node ends a run of code lines, the text of a pre or code element
PendingCode(e) ==
    IF code_buffer # <<>> THEN JoinLines(code_buffer)
    ELSE IF e.name \in {"pre", "code"} /\ ~IsNested(e) THEN e.text
    ELSE <<>>
ShowsCode(sl, code) ==
    \E i \in 1..Len(sl.body) :
        /\ sl.body[i].kind = "code"
        /\ Chars(sl.body[i].text) = SubSeq(Chars(code), 1, Min(MaxCodeChars, Len(Chars(code))))

\* C21: when a code node with non-blank text is handled (a pre block, a code element
\* of its own, or the run of code lines that the node ends), the slide current
\* afterwards shows a code block with the first min(len, 1000) characters of the code
\* text, and the step raises nothing.
C21_CodeBlockRendered ==
    [][ (AtNode /\ ~HasMarker(elements[idx].text) /\ ~IsCmLine(elements[idx])
            /\ Strip(PendingCode(elements[idx])) # <<>>)
          => /\ trace' = trace
             /\ IF code_buffer # <<>> /\ current_slide # 0
                THEN ShowsCode(slides'[current_slide], PendingCode(elements[idx]))
                ELSE /\ current_slide' # 0
                     /\ ShowsCode(slides'[current_slide'], PendingCode(elements[idx])) ]_vars

MaxTitleChars == 100
HeadingSlides == { k \in 1..Len(slides) : slides[k].src # <<>> }
\* the heading text without a leading "Slide N:" in any letter case
CleanHeading(t) ==
    IF t # <<>> /\ Head(t) \in {"Slide 1:", "slide 12 :"} THEN Chars(Tail(t)) ELSE Chars(t)

\* C22: the title of the slide created for a heading is the heading text without its
\* leading "Slide N:" prefix; unchanged when that has at most 100 characters, else
\* its first 100 characters followed by "...".
C22_HeadingTitle ==
    \A k \in HeadingSlides :
        LET clean == CleanHeading(ElemByPath(slides[k].src).text)
        IN  Chars(slides[k].title) =
              IF Len(clean) > MaxTitleChars THEN SubSeq(clean, 1, MaxTitleChars) \o "..."
              ELSE clean

\* a heading with a lower-case prefix and 101 characters after it has its slide
C22_LongPrefixedHeadingSlide ==
    \E k \in HeadingSlides :
        LET t == ElemByPath(slides[k].src).text
        IN  Head(t) = "slide 12 :" /\ Len(CleanHeading(t)) > MaxTitleChars

MaxParagraphChars == 1000
IsStandaloneText(e) == e.name \in {"p", "blockquote"} /\ e.anc = {}

\* C23: when a paragraph or quote of its own is handled whose text is not empty and
\* not longer than 1000 characters, the slide current afterwards holds one body line
\* for it, at level 0 or 1.
C23_ParagraphRendered ==
    [][ (AtNode /\ code_buffer = <<>> /\ IsStandaloneText(elements[idx])
            /\ ~HasMarker(elements[idx].text)
            /\ Len(Chars(elements[idx].text)) \in 1..MaxParagraphChars)
          => /\ current_slide' # 0
             /\ LET body == slides'[current_slide'].body
                 IN  /\ Cardinality({ i \in 1..Len(body) : body[i].src = elements[idx].path }) = 1
                     /\ \A i \in 1..Len(body) :
                           body[i].src = elements[idx].path => body[i].level \in {0, 1} ]_vars

CodeBlocks ==
    UNION { { slides[k].body[i] : i \in { j \in 1..Len(slides[k].body) :
                                              slides[k].body[j].kind = "code" } }
            : k \in 1..Len(slides) }

\* C24: every rendered code block has the monospace font of the font table
\* (Courier New), not the generic fallback, and the explicit no-bullet marker.
C24_CodeBlockMonospace ==
    \A b \in CodeBlocks : b.font = "Courier New" /\ b.bullet = "buNone"

\* C26: once _process_content_elements has returned, no code line is left in the
\* buffer: every buffered line has been rendered, also when the input ends with
\* code-line nodes.
C26_BufferEmptyAtReturn ==
    pc \in {"save", "notes_file"} => code_buffer = <<>>

\* C25: a note is recorded under the 1-based position, in the document being built,
\* of the slide that holds it, and the transcript written by a build names only
\* slides of that build's document; also for a later build on the same generator.
C25_NoteKeyIsSlidePosition ==
    [][ /\ Len(speaker_notes_txt') > Len(speaker_notes_txt)
            => LET key == speaker_notes_txt'[Len(speaker_notes_txt')]
               IN  /\ slide_count' = Len(slides')
                   /\ key[1] \in 1..Len(slides')
                   /\ slides'[key[1]].notes = key[2]
        /\ (notes_file' # notes_file /\ notes_file' # <<>>)
            => \A b \in Range(notes_file') : b[1] \in 1..Len(slides') ]_vars

\* C27: however concurrent sign_up_user calls interleave, no two documents of the
\* users collection have the same username, at most one call per username has
\* returned success, and every other finished call for it has returned
\* (False, "Username already exists").
C27_UniqueUsernames ==
    /\ \A i, j \in 1..Len(users_col) :
          i # j => users_col[i].username # users_col[j].username
    /\ \A s, t \in Sessions :
          (s # t /\ session[s].pc = "returned" /\ session[t].pc = "returned"
               /\ session[s].username = session[t].username)
            => \/ session[s].result = <<FALSE, "Username already exists">>
               \/ session[t].result = <<FALSE, "Username already exists">>

====
